---- MODULE Spec2Model ----
(***************************************************************************)
(* Model of the pynmd fixed-width writers:                                 *)
(*   models/swan/pre/swan_pre.py      write_boundary_spec                  *)
(*   models/xbeach/pre/xbeach_pre.py  write_bathy, write_boundary_spec     *)
(* Arrays are numpy-like records [shape, data] with 0-based index tuples.  *)
(* A text file is the sequence of its completed lines plus the characters  *)
(* written since the last newline.                                         *)
(***************************************************************************)
EXTENDS Integers, Sequences, FiniteSets, TLC

VARIABLES
    freq, spec, locations, sdir,   \* arguments of write_boundary_spec
    x, y, z,                       \* arguments of write_bathy
    fn, swan, ncsave, outfile,     \* the call in progress and its flags
    pc, aa, bb,                    \* position in the code, loop indices
    fs, handles,                   \* files on disk, open file handles
    nc, xi_rho, eta_rho,           \* netCDF dataset, locals of write_bathy
    console, exc,                  \* lines printed by the call, raised exception
    np_str                         \* the installed numpy still has np.str

vars == <<freq, spec, locations, sdir, x, y, z, fn, swan, ncsave, outfile,
          pc, aa, bb, fs, handles, nc, xi_rho, eta_rho, console, exc,
          np_str>>

\* what no writer assigns to: the arguments and the installed libraries
inputs == <<freq, spec, locations, sdir, x, y, z, np_str>>

-----------------------------------------------------------------------------
(* Bounds of the model *)

MaxNf == 2      \* longest frequency vector / frequency axis
MaxNd == 2      \* longest direction vector / direction axis
MaxLoc == 1     \* most locations
MaxLead == 2    \* largest size of a leading (time, location) axis
MaxRows == 2    \* most rows of a bathymetry grid
MaxCols == 2    \* most columns of a bathymetry grid

\* Python's None, where an array is optional
None == [none |-> TRUE]
Unbound == -1   \* a local variable that has not been assigned

-----------------------------------------------------------------------------
(* numpy arrays *)

Max2(a, b) == IF a >= b THEN a ELSE b

RECURSIVE MaxOf(_)
MaxOf(s) == IF s = <<>> THEN 0 ELSE Max2(Head(s), MaxOf(Tail(s)))

RECURSIVE Prod(_)
Prod(s) == IF s = <<>> THEN 1 ELSE Head(s) * Prod(Tail(s))

\* all index tuples of an array of the given shape
IndexSet(shape) ==
    IF shape = <<>> THEN { <<>> }
    ELSE { t \in [1..Len(shape) -> 0..(MaxOf(shape) - 1)] :
             \A k \in 1..Len(shape) : t[k] < shape[k] }

\* the value stored at an index: its digits are the (1-based) indices, so
\* every cell of an array holds a different number
RECURSIVE CellValue(_)
CellValue(t) == IF t = <<>> THEN 0
                ELSE 10 * CellValue(SubSeq(t, 1, Len(t) - 1)) + t[Len(t)] + 1

Array(shape, scale) ==
    [shape |-> shape, data |-> [t \in IndexSet(shape) |-> scale * CellValue(t)]]

Ndim(a) == Len(a.shape)
Size(a) == Prod(a.shape)

\* a.shape[-k]
ShapeFromEnd(a, k) == a.shape[Len(a.shape) - k + 1]

\* a[idx] for a tuple of non-negative integers: an IndexError, or the
\* sub-array over the remaining axes (a 0-d array is a scalar)
Getitem(a, idx) ==
    IF Len(idx) > Ndim(a) THEN [err |-> "IndexError", val |-> None]
    ELSE IF \E k \in 1..Len(idx) : idx[k] >= a.shape[k]
         THEN [err |-> "IndexError", val |-> None]
    ELSE LET rest == SubSeq(a.shape, Len(idx) + 1, Ndim(a))
         IN  [err |-> "none",
              val |-> [shape |-> rest,
                       data  |-> [t \in IndexSet(rest) |-> a.data[idx \o t]]]]

-----------------------------------------------------------------------------
(* '%W.Df' % v *)

RECURSIVE Zeros(_)
Zeros(d) == IF d = 0 THEN "" ELSE "0" \o Zeros(d - 1)

RECURSIVE PadLeft(_, _)
PadLeft(w, s) == IF Len(s) >= w THEN s ELSE PadLeft(w, " " \o s)

\* a whole-valued number as a fixed-point field, right-justified
Fmt(w, d, v) ==
    PadLeft(w, ToString(v) \o (IF d = 0 THEN "" ELSE "." \o Zeros(d)))

\* what '%W.Df' % a can do for the result a of an indexing expression:
\* a scalar is formatted; an array of one element is converted to a scalar
\* by some numpy releases and refused by others; any other array is refused
FormatOutcomes(w, d, a) ==
    IF a.shape = <<>> THEN { [err |-> "none", text |-> Fmt(w, d, a.data[<<>>])] }
    ELSE IF Size(a) = 1
         THEN { [err |-> "none",
                 text |-> Fmt(w, d, a.data[[k \in 1..Ndim(a) |-> 0]])],
                [err |-> "TypeError", text |-> ""] }
    ELSE { [err |-> "TypeError", text |-> ""] }

-----------------------------------------------------------------------------
(* files *)

SwanFile == "swan.bnd"
XbFile == "xbeach.bnd"
XGrd == "x.grd"
YGrd == "y.grd"
ZDep == "z.dep"
FileNames == {SwanFile, XbFile, XGrd, YGrd, ZDep}

NoFile == [exists |-> FALSE, lines |-> <<>>, cur |-> ""]
EmptyFile == [exists |-> TRUE, lines |-> <<>>, cur |-> ""]

\* open(path, 'w'): the file is created or truncated
Open(files, f) == [files EXCEPT ![f] = EmptyFile]

\* fid.write(text)
Write(files, f, text) == [files EXCEPT ![f].cur = @ \o text]

\* fid.write(text + '\n')
WriteLine(files, f, text) ==
    [files EXCEPT ![f] = [exists |-> TRUE,
                          lines  |-> Append(@.lines, @.cur \o text),
                          cur    |-> ""]]

\* the netCDF dataset depth.nc before it is created
NoDataset == [open |-> FALSE, attrs |-> <<>>, dims |-> <<>>, vars |-> <<>>]

RECURSIVE WriteLines(_, _, _)
WriteLines(files, f, texts) ==
    IF texts = <<>> THEN files
    ELSE WriteLines(WriteLine(files, f, Head(texts)), f, Tail(texts))

-----------------------------------------------------------------------------
(* inputs *)

Vector(n, scale) == Array(<<n>>, scale)

FreqInputs == { Vector(n, 1) : n \in 0..MaxNf }
DirInputs == { Vector(n, -1) : n \in 0..MaxNd }
LocInputs == { Array(<<n, 2>>, -1) : n \in 0..MaxLoc }
PlainShapes == { <<f, d>> : f \in 0..MaxNf, d \in 0..MaxNd }
LeadShapes ==
    { <<t, f, d>> : t \in 1..MaxLead, f \in 1..MaxNf, d \in 1..MaxNd }
    \cup { <<t, l, f, d>> : t \in 1..MaxLead, l \in 1..MaxLead,
                            f \in 1..MaxNf, d \in 1..MaxNd }

NoArray == Array(<<0>>, 1)

-----------------------------------------------------------------------------
(* control *)

Idle == pc \in {"idle", "returned"}

\* an exception leaves the function: nothing after the raising statement
\* runs, and the function has no handler that would close its files
Raise(kind, files) ==
    /\ pc' = "raised"
    /\ exc' = kind
    /\ fs' = files
    /\ UNCHANGED <<inputs, fn, swan, ncsave, outfile, aa, bb, handles,
                   nc, xi_rho, eta_rho, console>>

\* a step that only writes to files and moves on
Step(nextpc, a, b, files) ==
    /\ pc' = nextpc
    /\ aa' = a
    /\ bb' = b
    /\ fs' = files
    /\ UNCHANGED <<inputs, fn, swan, ncsave, outfile, handles,
                   nc, xi_rho, eta_rho, console, exc>>

\* fid.write(fmt % a[idx]) with no newline
WriteItem(f, w, d, a, idx, nextpc, a2, b2) ==
    LET g == Getitem(a, idx)
    IN  IF g.err # "none" THEN Raise(g.err, fs)
        ELSE \E o \in FormatOutcomes(w, d, g.val) :
                IF o.err # "none" THEN Raise(o.err, fs)
                ELSE Step(nextpc, a2, b2, Write(fs, f, o.text))

\* fid.write(fmt % a[idx] + '\n')
WriteItemLine(f, w, d, a, idx, nextpc, a2, b2) ==
    LET g == Getitem(a, idx)
    IN  IF g.err # "none" THEN Raise(g.err, fs)
        ELSE \E o \in FormatOutcomes(w, d, g.val) :
                IF o.err # "none" THEN Raise(o.err, fs)
                ELSE Step(nextpc, a2, b2, WriteLine(fs, f, o.text))

-----------------------------------------------------------------------------
(* swan_pre.write_boundary_spec *)

\* "if sdir:" in place of "if sdir is not None:", which also skips an empty
\* direction vector
SdirTruthy == sdir # None /\ sdir.shape[1] > 0

\* sdir is not None
SdirGiven == sdir # None

\* the exception value and the FACTOR section change places
QuantLinesReordered ==
    <<"QUANT", "1", "VaDens", "m2/Hz/degr", "FACTOR", "1", "-99">>

\* the fixed lines between the direction section and the data block
QuantLines == <<"QUANT", "1", "VaDens", "m2/Hz/degr", "-99", "FACTOR", "1">>

\* the frequency loop runs over the frequency vector, not the grid
SwanRowsFromFreq == freq.shape[1]

\* range(spec.shape[-2]) and range(spec.shape[-1])
SwanRows == ShapeFromEnd(spec, 2)
SwanCols == ShapeFromEnd(spec, 1)

\* spec[bb,aa] in place of spec[aa,bb]
SwanSpecIndexSwapped(a, b) == <<b, a>>

\* the index expression of the data block, spec[aa,bb]
SwanSpecIndex(a, b) == <<a, b>>

CallSwan ==
    /\ Idle
    /\ fn' = "swan"
    /\ swan' = TRUE
    /\ outfile' = SwanFile
    /\ pc' = "s_open"
    /\ exc' = "none"
    /\ console' = <<>>
    /\ UNCHANGED <<inputs, ncsave, aa, bb, fs, handles, nc, xi_rho, eta_rho>>

SwanOpen ==
    /\ pc = "s_open"
    /\ fs' = Open(fs, outfile)
    /\ handles' = handles \cup {outfile}
    /\ pc' = "s_header"
    /\ UNCHANGED <<inputs, fn, swan, ncsave, outfile, aa, bb, nc, xi_rho,
                   eta_rho, console, exc>>

SwanHeader ==
    /\ pc = "s_header"
    /\ Step("s_loc_head", aa, bb, WriteLine(fs, outfile, "SWAN 1"))

SwanLocationsHead ==
    /\ pc = "s_loc_head"
    /\ Step("s_loc", 0, bb,
            WriteLines(fs, outfile,
                       <<"LOCATIONS", Fmt(12, 0, locations.shape[1])>>))

\* one line per location: two fields separated by a blank
SwanLocation ==
    /\ pc = "s_loc"
    /\ aa < locations.shape[1]
    /\ LET g0 == Getitem(locations, <<aa, 0>>)
           g1 == Getitem(locations, <<aa, 1>>)
       IN  IF g0.err # "none" THEN Raise(g0.err, fs)
           ELSE IF g1.err # "none" THEN Raise(g1.err, fs)
           ELSE Step("s_loc", aa + 1, bb,
                     WriteLine(fs, outfile,
                               Fmt(16, 4, g0.val.data[<<>>]) \o " "
                               \o Fmt(16, 4, g1.val.data[<<>>])))

SwanFreqHead ==
    /\ pc = "s_loc"
    /\ aa >= locations.shape[1]
    /\ Step("s_freq", 0, bb,
            WriteLines(fs, outfile, <<"RFREQ", Fmt(12, 0, freq.shape[1])>>))

SwanFreq ==
    /\ pc = "s_freq"
    /\ aa < freq.shape[1]
    /\ WriteItemLine(outfile, 12, 8, freq, <<aa>>, "s_freq", aa + 1, bb)

SwanDirHead ==
    /\ pc = "s_freq"
    /\ aa >= freq.shape[1]
    /\ SdirGiven
    /\ Step("s_dir", 0, bb,
            WriteLines(fs, outfile, <<"NDIR", Fmt(12, 0, sdir.shape[1])>>))

SwanDir ==
    /\ pc = "s_dir"
    /\ aa < sdir.shape[1]
    /\ WriteItemLine(outfile, 16, 4, sdir, <<aa>>, "s_dir", aa + 1, bb)

\* the first of the fixed lines, written once the sections before it are over
SwanQuantFirst ==
    /\ \/ pc = "s_freq" /\ aa >= freq.shape[1] /\ ~SdirGiven
       \/ pc = "s_dir" /\ aa >= sdir.shape[1]
    /\ Step("s_quant", 1, bb, WriteLine(fs, outfile, QuantLines[1]))

SwanQuantNext ==
    /\ pc = "s_quant"
    /\ aa < Len(QuantLines)
    /\ Step(IF aa + 1 < Len(QuantLines) THEN "s_quant" ELSE "s_data",
            IF aa + 1 < Len(QuantLines) THEN aa + 1 ELSE 0, 0,
            WriteLine(fs, outfile, QuantLines[aa + 1]))

SwanDataField ==
    /\ pc = "s_data"
    /\ aa < SwanRows
    /\ bb < SwanCols
    /\ WriteItem(outfile, 16, 10, spec, SwanSpecIndex(aa, bb), "s_data",
                 aa, bb + 1)

SwanDataNewline ==
    /\ pc = "s_data"
    /\ aa < SwanRows
    /\ bb >= SwanCols
    /\ Step("s_data", aa + 1, 0, WriteLine(fs, outfile, ""))

\* fid.close(), then back to the caller
SwanClose ==
    /\ pc = "s_data"
    /\ aa >= SwanRows
    /\ handles' = handles \ {outfile}
    /\ pc' = IF fn = "xbeach" THEN "x_return" ELSE "returned"
    /\ UNCHANGED <<inputs, fn, swan, ncsave, outfile, aa, bb, fs, nc, xi_rho,
                   eta_rho, console, exc>>

-----------------------------------------------------------------------------
(* xbeach_pre.write_boundary_spec *)

\* range(spec.shape[-2]) and range(spec.shape[-1])
XbRows == ShapeFromEnd(spec, 2)
XbCols == ShapeFromEnd(spec, 1)

\* spec[bb,aa] in place of spec[aa,bb]
XbSpecIndexSwapped(a, b) == <<b, a>>

\* the index expression of the data block, spec[aa,bb]
XbSpecIndex(a, b) == <<a, b>>

CallXbeach ==
    /\ Idle
    /\ \E s \in BOOLEAN :
          /\ swan' = s
          /\ outfile' = IF s THEN SwanFile ELSE XbFile
    /\ fn' = "xbeach"
    /\ pc' = "x_entry"
    /\ exc' = "none"
    /\ console' = <<>>
    /\ UNCHANGED <<inputs, ncsave, aa, bb, fs, handles, nc, xi_rho, eta_rho>>

\* if swan: the call is handed to the SWAN writer
XbDelegate ==
    /\ pc = "x_entry"
    /\ swan
    /\ pc' = "s_open"
    /\ console' = Append(console, "Writting swan formatted input, Instat = 5")
    /\ UNCHANGED <<inputs, fn, swan, ncsave, outfile, aa, bb, fs, handles, nc,
                   xi_rho, eta_rho, exc>>

XbReturn ==
    /\ pc = "x_return"
    /\ pc' = "returned"
    /\ UNCHANGED <<inputs, fn, swan, ncsave, outfile, aa, bb, fs, handles, nc,
                   xi_rho, eta_rho, console, exc>>

XbOpen ==
    /\ pc = "x_entry"
    /\ ~swan
    /\ console' = Append(console, "Writing 2D spectrum for Instat = 6")
    /\ fs' = Open(fs, outfile)
    /\ handles' = handles \cup {outfile}
    /\ pc' = "x_freq_head"
    /\ UNCHANGED <<inputs, fn, swan, ncsave, outfile, aa, bb, nc, xi_rho,
                   eta_rho, exc>>

XbFreqHead ==
    /\ pc = "x_freq_head"
    /\ Step("x_freq", 0, bb, WriteLine(fs, outfile, Fmt(12, 0, freq.shape[1])))

XbFreq ==
    /\ pc = "x_freq"
    /\ aa < freq.shape[1]
    /\ WriteItemLine(outfile, 12, 8, freq, <<aa>>, "x_freq", aa + 1, bb)

XbDirHead ==
    /\ pc = "x_freq"
    /\ aa >= freq.shape[1]
    /\ SdirGiven
    /\ Step("x_dir", 0, bb, WriteLine(fs, outfile, Fmt(12, 0, sdir.shape[1])))

XbDir ==
    /\ pc = "x_dir"
    /\ aa < sdir.shape[1]
    /\ WriteItemLine(outfile, 16, 4, sdir, <<aa>>, "x_dir", aa + 1, bb)

\* both loops of the section before the data block are over
XbDataStart ==
    \/ pc = "x_freq" /\ aa >= freq.shape[1] /\ ~SdirGiven
    \/ pc = "x_dir" /\ aa >= sdir.shape[1]

XbDataIndex(i) == IF XbDataStart THEN 0 ELSE i

XbDataField ==
    /\ pc = "x_data" \/ XbDataStart
    /\ XbDataIndex(aa) < XbRows
    /\ XbDataIndex(bb) < XbCols
    /\ WriteItem(outfile, 16, 10, spec,
                 XbSpecIndex(XbDataIndex(aa), XbDataIndex(bb)), "x_data",
                 XbDataIndex(aa), XbDataIndex(bb) + 1)

XbDataNewline ==
    /\ pc = "x_data" \/ XbDataStart
    /\ XbDataIndex(aa) < XbRows
    /\ XbDataIndex(bb) >= XbCols
    /\ Step("x_data", XbDataIndex(aa) + 1, 0, WriteLine(fs, outfile, ""))

XbClose ==
    /\ pc = "x_data" \/ XbDataStart
    /\ XbDataIndex(aa) >= XbRows
    /\ handles' = handles \ {outfile}
    /\ pc' = "returned"
    /\ UNCHANGED <<inputs, fn, swan, ncsave, outfile, aa, bb, fs, nc, xi_rho,
                   eta_rho, console, exc>>

-----------------------------------------------------------------------------
(* the boundary-spectrum writers, called on one set of arguments *)

InitCommon ==
    /\ fn = "none" /\ swan = TRUE /\ ncsave = TRUE /\ outfile = SwanFile
    /\ pc = "idle" /\ aa = 0 /\ bb = 0
    /\ fs = [f \in FileNames |-> NoFile]
    /\ handles = {}
    /\ nc = NoDataset /\ xi_rho = Unbound /\ eta_rho = Unbound
    /\ console = <<>> /\ exc = "none"

\* a 2-D grid with any frequency and direction vectors and locations, or a
\* grid with leading axes whose last two axes match the vectors
InitSpectrum ==
    /\ InitCommon
    /\ np_str = TRUE
    /\ x = NoArray /\ y = None /\ z = NoArray
    /\ \/ /\ freq \in FreqInputs
          /\ spec \in { Array(s, 1) : s \in PlainShapes }
          /\ locations \in LocInputs
          /\ sdir \in DirInputs \cup {None}
       \/ /\ spec \in { Array(s, 1) : s \in LeadShapes }
          /\ freq = Vector(ShapeFromEnd(spec, 2), 1)
          /\ sdir \in {None, Vector(ShapeFromEnd(spec, 1), -1)}
          /\ locations = Array(<<1, 2>>, -1)

NextSpectrum ==
    \/ CallSwan \/ SwanOpen \/ SwanHeader \/ SwanLocationsHead \/ SwanLocation
    \/ SwanFreqHead \/ SwanFreq \/ SwanDirHead \/ SwanDir \/ SwanQuantFirst
    \/ SwanQuantNext \/ SwanDataField \/ SwanDataNewline \/ SwanClose
    \/ CallXbeach \/ XbDelegate \/ XbReturn \/ XbOpen \/ XbFreqHead \/ XbFreq
    \/ XbDirHead \/ XbDir \/ XbDataField \/ XbDataNewline \/ XbClose

SpecSpectrum == InitSpectrum /\ [][NextSpectrum]_vars

-----------------------------------------------------------------------------
(* xbeach_pre.write_bathy: the text files *)

YGiven == y # None

Rule == "==================================================================="

\* the direction loop runs over the rows of z
ZColsFromRows == z.shape[1]

\* range(z.shape[0]) and range(z.shape[1])
ZRows == z.shape[1]
ZCols == z.shape[2]

CallBathy ==
    /\ Idle
    /\ fn' = "bathy"
    /\ ncsave' \in BOOLEAN
    /\ xi_rho' = Unbound
    /\ eta_rho' = Unbound
    /\ pc' = "b_entry"
    /\ exc' = "none"
    /\ console' = <<>>
    /\ UNCHANGED <<inputs, swan, outfile, aa, bb, fs, handles, nc>>

BOpen2D ==
    /\ pc = "b_entry"
    /\ YGiven
    /\ console' = Append(console, "Writing 2D grids")
    /\ fs' = Open(Open(Open(fs, XGrd), YGrd), ZDep)
    /\ handles' = handles \cup {XGrd, YGrd, ZDep}
    /\ pc' = "b_cell"
    /\ aa' = 0
    /\ bb' = 0
    /\ UNCHANGED <<inputs, fn, swan, ncsave, outfile, nc, xi_rho, eta_rho, exc>>

\* one field of the row in progress to each of the three files, in the
\* order x, y, z; a failing index leaves the earlier writes in place
BCell ==
    /\ pc = "b_cell"
    /\ aa < ZRows
    /\ bb < ZCols
    /\ LET gx == Getitem(x, <<aa, bb>>)
           gy == Getitem(y, <<aa, bb>>)
           gz == Getitem(z, <<aa, bb>>)
           fx == Write(fs, XGrd, Fmt(16, 4, gx.val.data[<<>>]))
           fy == Write(fx, YGrd, Fmt(16, 4, gy.val.data[<<>>]))
           fz == Write(fy, ZDep, Fmt(16, 4, gz.val.data[<<>>]))
       IN  IF gx.err # "none" THEN Raise(gx.err, fs)
           ELSE IF gy.err # "none" THEN Raise(gy.err, fx)
           ELSE IF gz.err # "none" THEN Raise(gz.err, fy)
           ELSE Step("b_cell", aa, bb + 1, fz)

BRowEnd ==
    /\ pc = "b_cell"
    /\ aa < ZRows
    /\ bb >= ZCols
    /\ Step("b_cell", aa + 1, 0,
            WriteLine(WriteLine(WriteLine(fs, XGrd, ""), YGrd, ""), ZDep, ""))

\* fidz.close() is missing
BClose2DLeak ==
    /\ pc = "b_cell"
    /\ aa >= ZRows
    /\ handles' = handles \ {XGrd, YGrd}
    /\ pc' = "b_nc"
    /\ UNCHANGED <<inputs, fn, swan, ncsave, outfile, aa, bb, fs, nc, xi_rho,
                   eta_rho, console, exc>>

BClose2D ==
    /\ pc = "b_cell"
    /\ aa >= ZRows
    /\ handles' = handles \ {XGrd, YGrd, ZDep}
    /\ pc' = "b_nc"
    /\ UNCHANGED <<inputs, fn, swan, ncsave, outfile, aa, bb, fs, nc, xi_rho,
                   eta_rho, console, exc>>

BOpenZ ==
    /\ pc = "b_entry"
    /\ ~YGiven
    /\ console' = Append(console, "Writing 1D grids")
    /\ fs' = Open(fs, ZDep)
    /\ handles' = handles \cup {ZDep}
    /\ pc' = "b_z"
    /\ aa' = 0
    /\ UNCHANGED <<inputs, fn, swan, ncsave, outfile, bb, nc, xi_rho, eta_rho,
                   exc>>

BZ ==
    /\ pc = "b_z"
    /\ aa < z.shape[1]
    /\ WriteItem(ZDep, 16, 4, z, <<aa>>, "b_z", aa + 1, bb)

\* the newline that ends the only row, and fid.close()
BZEnd ==
    /\ pc = "b_z"
    /\ aa >= z.shape[1]
    /\ fs' = WriteLine(fs, ZDep, "")
    /\ handles' = handles \ {ZDep}
    /\ pc' = "b_openx"
    /\ UNCHANGED <<inputs, fn, swan, ncsave, outfile, aa, bb, nc, xi_rho,
                   eta_rho, console, exc>>

BOpenX ==
    /\ pc = "b_openx"
    /\ fs' = Open(fs, XGrd)
    /\ handles' = handles \cup {XGrd}
    /\ pc' = "b_x"
    /\ aa' = 0
    /\ UNCHANGED <<inputs, fn, swan, ncsave, outfile, bb, nc, xi_rho, eta_rho,
                   console, exc>>

BX ==
    /\ pc = "b_x"
    /\ aa < x.shape[1]
    /\ WriteItem(XGrd, 16, 4, x, <<aa>>, "b_x", aa + 1, bb)

BXEnd ==
    /\ pc = "b_x"
    /\ aa >= x.shape[1]
    /\ fs' = WriteLine(fs, XGrd, "")
    /\ handles' = handles \ {XGrd}
    /\ pc' = "b_nc"
    /\ UNCHANGED <<inputs, fn, swan, ncsave, outfile, aa, bb, nc, xi_rho,
                   eta_rho, console, exc>>

-----------------------------------------------------------------------------
(* xbeach_pre.write_bathy: the netCDF mirror and the report *)

\* a step of the mirror: the dataset changes, the text files do not
NcStep(nextpc, dataset, xi, eta) ==
    /\ pc' = nextpc
    /\ nc' = dataset
    /\ xi_rho' = xi
    /\ eta_rho' = eta
    /\ UNCHANGED <<inputs, fn, swan, ncsave, outfile, aa, bb, fs, handles,
                   console, exc>>

\* the local tmpDims: a tuple of two names, or, in 1-D mode, the bare string
\* 'xi_rho' (parentheses without a comma make no tuple)
TmpDims == IF YGiven THEN <<"eta_rho", "xi_rho">> ELSE "xi_rho"

\* the dimensions the library gives a variable created with tmpDims: a
\* single name stands for the tuple of that one name
VarDims == IF YGiven THEN TmpDims ELSE <<TmpDims>>

GlobalAttrs == <<"Description", "Author", "Created", "Owner", "Software",
                 "NetCDF_Lib", "Script">>

\* nc.createVariable(name, 'f8', tmpDims) with its units and long_name:
\* the variable exists and holds no data
NcCreated(dataset, name) ==
    [dataset EXCEPT !.vars = Append(@, [name |-> name, dims |-> VarDims,
                                        data |-> None])]

\* nc.variables[name][:] = a, for the variable created last
NcAssigned(dataset, a) ==
    [dataset EXCEPT !.vars[Len(dataset.vars)].data = a]

\* netCDF4.Dataset(outfld + 'depth.nc', 'w', format='NETCDF4')
NcOpen ==
    /\ pc = "b_nc"
    /\ ncsave
    /\ NcStep("nc_attrs",
              [open |-> TRUE, attrs |-> <<>>, dims |-> <<>>, vars |-> <<>>],
              xi_rho, eta_rho)

\* the global attribute that the next statement sets
NextAttr == GlobalAttrs[Len(nc.attrs) + 1]

\* one of the statements nc.Description = ... to nc.Script = ...
NcAttrs ==
    /\ pc = "nc_attrs"
    /\ NcStep(IF Len(nc.attrs) + 1 < Len(GlobalAttrs)
              THEN "nc_attrs" ELSE "nc_locals",
              [nc EXCEPT !.attrs = Append(@, NextAttr)], xi_rho, eta_rho)

\* nc.Author = getpass.getuser(): getuser raises KeyError when the process
\* has no user name (no LOGNAME/USER and no passwd entry for its uid)
NcGetUserFail ==
    /\ pc = "nc_attrs"
    /\ NextAttr = "Author"
    /\ Raise("KeyError", fs)

\* tmpDims, xi_rho and eta_rho are assigned; no library call
NcLocals ==
    /\ pc = "nc_locals"
    /\ IF YGiven
       THEN NcStep("nc_dim_eta", nc, z.shape[2], z.shape[1])
       ELSE NcStep("nc_dim_xi", nc, ShapeFromEnd(z, 1), eta_rho)

\* nc.createDimension('eta_rho',eta_rho)
NcDimEta ==
    /\ pc = "nc_dim_eta"
    /\ NcStep("nc_dim_xi",
              [nc EXCEPT !.dims = Append(@, <<"eta_rho", eta_rho>>)],
              xi_rho, eta_rho)

\* nc.createDimension('xi_rho', xi_rho)
NcDimXi ==
    /\ pc = "nc_dim_xi"
    /\ NcStep("nc_create_x",
              [nc EXCEPT !.dims = Append(@, <<"xi_rho", xi_rho>>)],
              xi_rho, eta_rho)

NcCreateX ==
    /\ pc = "nc_create_x"
    /\ NcStep("nc_assign_x", NcCreated(nc, "x_rho"), xi_rho, eta_rho)

NcAssignX ==
    /\ pc = "nc_assign_x"
    /\ NcStep("nc_create_h", NcAssigned(nc, x), xi_rho, eta_rho)

NcCreateH ==
    /\ pc = "nc_create_h"
    /\ NcStep("nc_assign_h", NcCreated(nc, "h"), xi_rho, eta_rho)

NcAssignH ==
    /\ pc = "nc_assign_h"
    /\ NcStep(IF YGiven THEN "nc_create_y" ELSE "nc_close",
              NcAssigned(nc, z), xi_rho, eta_rho)

NcCreateY ==
    /\ pc = "nc_create_y"
    /\ NcStep("nc_assign_y", NcCreated(nc, "y_rho"), xi_rho, eta_rho)

NcAssignY ==
    /\ pc = "nc_assign_y"
    /\ NcStep("nc_close", NcAssigned(nc, y), xi_rho, eta_rho)

NcClose ==
    /\ pc = "nc_close"
    /\ NcStep("b_report", [nc EXCEPT !.open = FALSE], xi_rho, eta_rho)

\* the positions at which the next statement calls the netCDF library
NcCallSites == {"nc_attrs", "nc_dim_eta", "nc_dim_xi", "nc_create_x",
                "nc_assign_x", "nc_create_h", "nc_assign_h", "nc_create_y",
                "nc_assign_y", "nc_close"}

\* what a failing mirror raises
MirrorErrors == {"NcError", "KeyError"}

\* any call into the netCDF library may raise (the file cannot be created,
\* an attribute cannot be set, the data does not fit the variable, the disk
\* is full); what the statements before it did to the dataset stays
NcFail ==
    /\ \/ pc = "b_nc" /\ ncsave
       \/ pc \in NcCallSites
    /\ Raise("NcError", fs)

\* the mirror is over, or was not asked for
ReportReady == pc = "b_report" \/ (pc = "b_nc" /\ ~ncsave)

ReportHead == <<" ", Rule, "In your params.txt:">>

\* '  nx = ' + np.str(xi_rho - 1), where np.str is str
NxLine == "  nx = " \o ToString(xi_rho - 1)
NyLine == IF YGiven THEN "  ny = " \o ToString(eta_rho - 1) ELSE "  ny = 0"

\* np.str is looked up before its argument is evaluated: a numpy without
\* np.str (1.24 and later) raises AttributeError at the nx line; otherwise
\* the locals xi_rho, eta_rho are read, and they are bound only by the mirror
ReportError ==
    IF ~np_str THEN "AttributeError"
    ELSE IF xi_rho = Unbound \/ (YGiven /\ eta_rho = Unbound)
         THEN "UnboundLocalError"
    ELSE "none"

Report ==
    /\ ReportReady
    /\ IF ReportError # "none"
       THEN /\ pc' = "raised"
            /\ exc' = ReportError
            /\ console' = console \o ReportHead
            /\ UNCHANGED <<inputs, fn, swan, ncsave, outfile, aa, bb, fs,
                           handles, nc, xi_rho, eta_rho>>
       ELSE /\ pc' = "returned"
            /\ console' = console \o ReportHead \o <<NxLine, NyLine, Rule>>
            /\ UNCHANGED <<inputs, fn, swan, ncsave, outfile, aa, bb, fs,
                           handles, nc, xi_rho, eta_rho, exc>>

\* one vector or grid per argument; x and y need not have the shape of z
BathyShapes1D == { <<n>> : n \in 0..MaxCols }
BathyShapes2D == { <<r, c>> : r \in 0..MaxRows, c \in 0..MaxCols }

InitBathy ==
    /\ InitCommon
    /\ np_str \in BOOLEAN
    /\ freq = NoArray /\ spec = NoArray /\ locations = NoArray /\ sdir = None
    /\ \/ /\ y = None
          /\ z \in { Array(s, 3) : s \in BathyShapes1D }
          /\ x \in { Array(s, 1) : s \in BathyShapes1D }
       \/ /\ z \in { Array(s, 3) : s \in BathyShapes2D }
          /\ x \in { Array(s, 1) : s \in BathyShapes2D }
          /\ y \in { Array(s, -1) : s \in BathyShapes2D }

NextBathy ==
    \/ CallBathy \/ BOpen2D \/ BCell \/ BRowEnd \/ BClose2D
    \/ BOpenZ \/ BZ \/ BZEnd \/ BOpenX \/ BX \/ BXEnd
    \/ NcOpen \/ NcAttrs \/ NcGetUserFail \/ NcLocals \/ NcDimEta \/ NcDimXi
    \/ NcCreateX \/ NcAssignX \/ NcCreateH \/ NcAssignH
    \/ NcCreateY \/ NcAssignY \/ NcClose \/ NcFail
    \/ Report

SpecBathy == InitBathy /\ [][NextBathy]_vars

-----------------------------------------------------------------------------
(* What the boundary-spectrum claims speak of *)

Lines(f) == fs[f].lines

\* the call in progress, or the last one, wrote the standard layout
SwanCall == fn = "swan" \/ (fn = "xbeach" /\ swan)
AltCall == fn = "xbeach" /\ ~swan

\* line i of a file, or a text no writer produces if the file is shorter
LineAt(l, i) == IF i \in 1..Len(l) THEN l[i] ELSE "<no line>"

\* lines i..j of a file
Slice(l, i, j) == [k \in 1..(j - i + 1) |-> LineAt(l, i + k - 1)]

IsPrefix(s, t) == Len(s) <= Len(t) /\ \A i \in 1..Len(s) : s[i] = t[i]

\* one line per element of a vector
VectorLines(w, d, v) ==
    [i \in 1..v.shape[1] |-> Fmt(w, d, v.data[<<i - 1>>])]

LocationLines ==
    [i \in 1..locations.shape[1] |->
        Fmt(16, 4, locations.data[<<i - 1, 0>>]) \o " "
        \o Fmt(16, 4, locations.data[<<i - 1, 1>>])]

\* the first n fields of row a of a 2-D grid, with nothing between them
RECURSIVE RowFields(_, _, _, _, _)
RowFields(w, d, g, a, n) ==
    IF n = 0 THEN ""
    ELSE RowFields(w, d, g, a, n - 1) \o Fmt(w, d, g.data[<<a, n - 1>>])

\* rows 0..r-1 of a 2-D grid, c fields each
GridLines(w, d, g, r, c) == [i \in 1..r |-> RowFields(w, d, g, i - 1, c)]

Nloc == locations.shape[1]
Nf == freq.shape[1]
Nd == sdir.shape[1]
GridNf == ShapeFromEnd(spec, 2)
GridNd == ShapeFromEnd(spec, 1)

DirSection == IF sdir = None THEN <<>>
              ELSE <<"NDIR", Fmt(12, 0, Nd)>> \o VectorLines(16, 4, sdir)

\* every line of the standard layout that comes before the data block
SwanHead ==
    <<"SWAN 1", "LOCATIONS", Fmt(12, 0, Nloc)>> \o LocationLines
    \o <<"RFREQ", Fmt(12, 0, Nf)>> \o VectorLines(12, 8, freq)
    \o DirSection
    \o <<"QUANT", "1", "VaDens", "m2/Hz/degr", "-99", "FACTOR", "1">>

\* every line of the alternate layout that comes before the data block
AltHead ==
    <<Fmt(12, 0, Nf)>> \o VectorLines(12, 8, freq)
    \o (IF sdir = None THEN <<>>
        ELSE <<Fmt(12, 0, Nd)>> \o VectorLines(16, 4, sdir))

\* the lines that follow the scale line of the FACTOR section
SwanBlock ==
    LET l == Lines(SwanFile)
        i == CHOOSE k \in 1..Len(l) : l[k] = "FACTOR"
    IN  SubSeq(l, i + 2, Len(l))

\* the lines that follow the frequency (and direction) values
AltBlock == SubSeq(Lines(XbFile), Len(AltHead) + 1, Len(Lines(XbFile)))

Tokens == {"SWAN 1", "LOCATIONS", "RFREQ", "NDIR", "QUANT", "VaDens",
           "m2/Hz/degr", "FACTOR"}

\* C1: a completed call of the SWAN writer leaves exactly: header, LOCATIONS
\* section, RFREQ section, NDIR section iff sdir is given, the seven fixed
\* lines QUANT..1, then the data block (one line per row of the grid) and
\* nothing after it; while the file is written its lines are always the
\* beginning of that sequence, so no section is repeated or out of order.
C1_SwanSectionOrder ==
    /\ (SwanCall /\ pc \in {"x_return", "returned"}) =>
          /\ fs[SwanFile].cur = ""
          /\ SubSeq(Lines(SwanFile), 1, Len(SwanHead)) = SwanHead
          /\ Len(Lines(SwanFile)) = Len(SwanHead) + GridNf
          /\ Ndim(spec) = 2 =>
                Lines(SwanFile)
                  = SwanHead \o GridLines(16, 10, spec, GridNf, GridNd)
    /\ (SwanCall /\ fs[SwanFile].exists) =>
          \/ IsPrefix(Lines(SwanFile), SwanHead)
          \/ /\ IsPrefix(SwanHead, Lines(SwanFile))
             /\ Len(Lines(SwanFile)) <= Len(SwanHead) + GridNf

C1_Witness ==
    /\ fn = "swan" /\ pc = "returned"
    /\ sdir # None /\ Nd = 2 /\ Nf = 2 /\ Nloc = 1
    /\ spec.shape = <<2, 2>>
    /\ Len(Lines(SwanFile)) = 21

\* C2: for a 2-D grid whose frequency axis has the length N_f of the
\* frequency vector, the data block of a completed file of either layout has
\* exactly N_f lines; line aa is the N_d fields of spec[aa,0..N_d-1] in
\* order, 16 characters each, nothing between them.
C2_DataBlock ==
    (pc = "returned" /\ Ndim(spec) = 2 /\ Nf = GridNf) =>
        /\ (SwanCall /\ fs[SwanFile].exists) =>
              /\ Len(SwanBlock) = Nf
              /\ \A i \in 1..Len(SwanBlock) : Len(SwanBlock[i]) = 16 * GridNd
              /\ SwanBlock = GridLines(16, 10, spec, Nf, GridNd)
        /\ (AltCall /\ fs[XbFile].exists) =>
              /\ Len(AltBlock) = Nf
              /\ \A i \in 1..Len(AltBlock) : Len(AltBlock[i]) = 16 * GridNd
              /\ AltBlock = GridLines(16, 10, spec, Nf, GridNd)

C2_Witness ==
    /\ AltCall /\ pc = "returned"
    /\ spec.shape = <<2, 2>> /\ Nf = 2
    /\ fs[SwanFile].exists
    /\ AltBlock = << Fmt(16, 10, 11) \o Fmt(16, 10, 12),
                     Fmt(16, 10, 21) \o Fmt(16, 10, 22) >>
    /\ SwanBlock = AltBlock

\* C3: without sdir a completed standard file has no NDIR line and QUANT
\* follows the last frequency value, and a completed alternate file has the
\* data block right after the last frequency value; with sdir the section
\* is the count len(sdir) followed by exactly len(sdir) direction lines
\* (after the NDIR token in the standard layout).
C3_DirectionSection ==
    LET sw == Lines(SwanFile)
        xb == Lines(XbFile)
        a  == 3 + Nloc + 2 + Nf      \* the last line of the RFREQ section
        b  == 1 + Nf                 \* the last frequency of the alternate file
    IN  /\ (pc = "returned" /\ SwanCall) =>
              IF sdir = None
              THEN /\ \A i \in 1..Len(sw) : sw[i] # "NDIR"
                   /\ LineAt(sw, a + 1) = "QUANT"
              ELSE /\ LineAt(sw, a + 1) = "NDIR"
                   /\ LineAt(sw, a + 2) = Fmt(12, 0, Nd)
                   /\ Slice(sw, a + 3, a + 2 + Nd) = VectorLines(16, 4, sdir)
                   /\ LineAt(sw, a + 3 + Nd) = "QUANT"
        /\ (pc = "returned" /\ AltCall) =>
              IF sdir = None
              THEN /\ Len(xb) = b + GridNf
                   /\ Ndim(spec) = 2 =>
                        Slice(xb, b + 1, Len(xb))
                          = GridLines(16, 10, spec, GridNf, GridNd)
              ELSE /\ LineAt(xb, b + 1) = Fmt(12, 0, Nd)
                   /\ Slice(xb, b + 2, b + 1 + Nd) = VectorLines(16, 4, sdir)
                   /\ Len(xb) = b + 1 + Nd + GridNf
                   /\ Ndim(spec) = 2 =>
                        Slice(xb, b + 2 + Nd, Len(xb))
                          = GridLines(16, 10, spec, GridNf, GridNd)

C3_Witness ==
    /\ pc = "returned" /\ AltCall
    /\ sdir = None /\ Nf = 2 /\ spec.shape = <<2, 1>>
    /\ Lines(XbFile)[3] = Fmt(12, 8, 2)
    /\ Lines(XbFile)[4] = Fmt(16, 10, 11)
    /\ fs[SwanFile].exists /\ Lines(SwanFile)[9] = "QUANT"

\* C4: once both layouts have been written from the same arguments, the
\* alternate file holds no token line and no location line: it is the
\* frequency count and values, the direction count and values if sdir is
\* given, and then a data block equal, line for line, to the data block of
\* the standard file.
C4_AlternateLayout ==
    (pc = "returned" /\ fs[XbFile].exists) =>
        /\ \A i \in 1..Len(Lines(XbFile)) : Lines(XbFile)[i] \notin Tokens
        /\ \A i \in 1..Len(Lines(XbFile)) :
              \A j \in 1..Len(LocationLines) :
                 Lines(XbFile)[i] # LocationLines[j]
        /\ Lines(XbFile) = AltHead \o AltBlock
        /\ fs[XbFile].cur = ""
        /\ fs[SwanFile].exists => AltBlock = SwanBlock

C4_Witness ==
    /\ pc = "returned" /\ fs[XbFile].exists /\ fs[SwanFile].exists
    /\ sdir # None /\ Nd = 1 /\ Nf = 2 /\ Nloc = 1
    /\ spec.shape = <<2, 2>>
    /\ Len(AltBlock) = 2
    /\ Len(Lines(SwanFile)) = Len(Lines(XbFile)) + 13

Mismatch == Nf # GridNf

\* C9 as stated: with freq.shape[0] # spec.shape[-2] a call that has ended
\* has ended with an index error.
C9_MismatchRaises ==
    (Mismatch /\ fn \in {"swan", "xbeach"} /\ pc \in {"returned", "raised"})
        => (pc = "raised" /\ exc = "IndexError")

\* C9 amended: for a 2-D grid with freq.shape[0] # spec.shape[-2] no call
\* raises; the call completes and leaves a file that declares freq.shape[0]
\* frequencies, lists that many, and has spec.shape[-2] data lines.
C9_MismatchCompletes ==
    (Mismatch /\ Ndim(spec) = 2) =>
        /\ pc # "raised"
        /\ (pc = "returned" /\ SwanCall) =>
              /\ Lines(SwanFile)[3 + Nloc + 2] = Fmt(12, 0, Nf)
              /\ SubSeq(Lines(SwanFile), 3 + Nloc + 3, 3 + Nloc + 2 + Nf)
                    = VectorLines(12, 8, freq)
              /\ Len(SwanBlock) = GridNf
        /\ (pc = "returned" /\ AltCall) =>
              /\ Lines(XbFile)[1] = Fmt(12, 0, Nf)
              /\ SubSeq(Lines(XbFile), 2, 1 + Nf) = VectorLines(12, 8, freq)
              /\ Len(AltBlock) = GridNf

C9_Witness ==
    /\ pc = "returned" /\ AltCall
    /\ Nf = 1 /\ spec.shape = <<2, 2>>
    /\ Lines(XbFile)[1] = Fmt(12, 0, 1)
    /\ Len(AltBlock) = 2

\* C10: whenever the data-block loop is about to read spec[aa,bb], with aa
\* and bb bounded by the sizes of the last two axes, the read is in bounds,
\* yields a single scalar, and that scalar lies at frequency index aa and
\* direction index bb of the grid.
C10_LastTwoAxes ==
    LET reading == \/ pc = "s_data" /\ aa < SwanRows /\ bb < SwanCols
                   \/ pc = "x_data" /\ aa < XbRows /\ bb < XbCols
        g == Getitem(spec, <<aa, bb>>)
    IN  reading =>
          /\ g.err = "none"
          /\ g.val.shape = <<>>
          /\ \E t \in IndexSet(spec.shape) :
                /\ t[Len(t) - 1] = aa
                /\ t[Len(t)] = bb
                /\ g.val.data[<<>>] = spec.data[t]

-----------------------------------------------------------------------------
(* What the bathymetry claims speak of *)

\* the first n fields of a vector, with nothing between them
RECURSIVE VectorFields(_, _, _, _)
VectorFields(w, d, v, n) ==
    IF n = 0 THEN ""
    ELSE VectorFields(w, d, v, n - 1) \o Fmt(w, d, v.data[<<n - 1>>])

TextFile(lines) == [exists |-> TRUE, lines |-> lines, cur |-> ""]

\* the text part of write_bathy is over
TextDone ==
    /\ fn = "bathy"
    /\ \/ pc \in {"b_nc", "nc_locals", "b_report", "returned"} \cup NcCallSites
       \/ pc = "raised"
          /\ exc \in MirrorErrors \cup {"UnboundLocalError", "AttributeError"}

\* x and y have the shape of z
ValidBathy == x.shape = z.shape /\ (y # None => y.shape = z.shape)

\* a grid has an element at every index of z
Covers(g) == g.shape[1] >= z.shape[1] /\ g.shape[2] >= z.shape[2]

\* C5: in 1-D mode the text part leaves x.grd and z.dep, one line each, of
\* len(x) and len(z) fields (the same number for matching vectors), and no
\* y.grd; in 2-D mode it leaves x.grd, y.grd and z.dep, each of z.shape[0]
\* lines of z.shape[1] fields; while the rows are written the three files
\* hold the same number of completed rows and the same number of fields of
\* the row in progress.
C5_BathyFiles ==
    /\ (TextDone /\ y = None) =>
          /\ fs[ZDep] = TextFile(<<VectorFields(16, 4, z, z.shape[1])>>)
          /\ fs[XGrd] = TextFile(<<VectorFields(16, 4, x, x.shape[1])>>)
          /\ Len(fs[ZDep].lines[1]) = 16 * z.shape[1]
          /\ ValidBathy => Len(fs[XGrd].lines[1]) = 16 * z.shape[1]
          /\ ~fs[YGrd].exists
    /\ (TextDone /\ y # None) =>
          /\ (z.shape[1] > 0 /\ z.shape[2] > 0) => (Covers(x) /\ Covers(y))
          /\ fs[XGrd] = TextFile(GridLines(16, 4, x, z.shape[1], z.shape[2]))
          /\ fs[YGrd] = TextFile(GridLines(16, 4, y, z.shape[1], z.shape[2]))
          /\ fs[ZDep] = TextFile(GridLines(16, 4, z, z.shape[1], z.shape[2]))
          /\ \A f \in {XGrd, YGrd, ZDep} :
                /\ Len(fs[f].lines) = z.shape[1]
                /\ \A i \in 1..Len(fs[f].lines) :
                      Len(fs[f].lines[i]) = 16 * z.shape[2]
    /\ (fn = "bathy" /\ pc = "b_cell") =>
          \A f \in {XGrd, YGrd, ZDep} :
             /\ Len(fs[f].lines) = aa
             /\ Len(fs[f].cur) = 16 * bb

C5_Witness ==
    /\ fn = "bathy" /\ pc = "returned"
    /\ y # None /\ z.shape = <<2, 2>> /\ ValidBathy
    /\ fs[ZDep].lines = << Fmt(16, 4, 33) \o Fmt(16, 4, 36),
                           Fmt(16, 4, 63) \o Fmt(16, 4, 66) >>
    /\ fs[YGrd].lines[2] = Fmt(16, 4, -21) \o Fmt(16, 4, -22)

\* C6: a call that has ended, by return or by a raised error, has no file
\* handle open.
C6_HandlesClosed == pc \in {"returned", "raised"} => handles = {}

\* C7: a write_bathy call on matching arrays fails only if the creation of
\* the netCDF mirror fails; otherwise it returns after printing nx = columns - 1 and
\* ny = rows - 1 (2-D) or ny = 0 (1-D), whether or not ncsave is set.
C7_ReportAlways ==
    (fn = "bathy" /\ ValidBathy) =>
        /\ pc = "raised" => exc \in MirrorErrors
        /\ pc = "returned" =>
              SubSeq(console, 2, Len(console))
                = <<" ", Rule, "In your params.txt:",
                    "  nx = " \o ToString(ShapeFromEnd(z, 1) - 1),
                    IF y = None THEN "  ny = 0"
                    ELSE "  ny = " \o ToString(z.shape[1] - 1),
                    Rule>>

\* the netCDF mirror has been started, or has failed
MirrorPhase ==
    /\ fn = "bathy"
    /\ \/ pc \in NcCallSites \cup {"nc_locals"}
       \/ nc.open
       \/ pc = "raised" /\ exc \in MirrorErrors

\* C8: from the moment depth.nc is opened, through every step of the mirror
\* and after a failure of any of them, no text file is open and each text
\* file holds all its rows.
C8_MirrorAfterText ==
    MirrorPhase =>
        /\ handles = {}
        /\ IF y = None
           THEN /\ fs[ZDep] = TextFile(<<VectorFields(16, 4, z, z.shape[1])>>)
                /\ fs[XGrd] = TextFile(<<VectorFields(16, 4, x, x.shape[1])>>)
           ELSE \A f \in {XGrd, YGrd, ZDep} :
                   /\ (z.shape[1] > 0 /\ z.shape[2] > 0)
                        => (Covers(x) /\ Covers(y))
                   /\ fs[f].exists
                   /\ fs[f].cur = ""
                   /\ Len(fs[f].lines) = z.shape[1]
                   /\ fs[f].lines
                        = GridLines(16, 4,
                                    IF f = XGrd THEN x
                                    ELSE IF f = YGrd THEN y ELSE z,
                                    z.shape[1], z.shape[2])

C8_Witness ==
    /\ pc = "raised" /\ exc = "NcError" /\ nc.open
    /\ Len(nc.vars) = 2
    /\ nc.vars[1].data = x
    /\ nc.vars[2].name = "h" /\ nc.vars[2].data = None
    /\ y # None /\ z.shape = <<2, 2>>
    /\ handles = {}
    /\ Len(fs[ZDep].lines) = 2

====
